---- MODULE Spec2Model ----
(***************************************************************************)
(* A model of the electrophysiology analysis scripts                       *)
(*   scripts/classic_in_vitro/python/action_potential_analysis.py   (ap)   *)
(*   scripts/mea_in_vitro/python/pharmacological_modulation_analysis.py    *)
(*                                                               (pharm)   *)
(*   scripts/mea_in_vitro/python/network_dynamics_analysis.py      (net)   *)
(*   scripts/python/synaptic_input_output_analysis.py              (syn)   *)
(*                                                                         *)
(* One behaviour is one invocation by a caller: either a call of a single  *)
(* function of a script with arguments drawn from bounded sets, or a run   *)
(* of a script's main(), one step per stage.                               *)
(*                                                                         *)
(* Conventions.  A sampled signal is a sequence of integers (amplitudes).  *)
(* Sample index i of the code (0-based) is position i + 1 of the sequence. *)
(* A float array with a physical scale is a record                         *)
(*   [mag |-> sequence of integers, den |-> integer, units |-> string]     *)
(* standing for the values mag[k] / den in the given units, so that        *)
(* idx / sampling_rate and rescale('ms') are computed exactly.             *)
(* A raised exception is the name of its class; "none" is a normal return. *)
(***************************************************************************)
EXTENDS Integers, Sequences, FiniteSets, TLC

\* ------------------------------------------------------------------ bounds
\* longest signal handed to a function called on its own
MaxLen == 5
\* longest signal stored in a recording file (main pipelines)
MaxFileLen == 5
\* longest spike_times sequence handed to compute_isi on its own
MaxSpikes == 4
\* largest sample index used as a spike time numerator
MaxIdx == 3
\* largest number of (dose, response) pairs of a fit data set
MaxPoints == 4
\* largest window edge, in seconds, of detect_firing_rate_change
MaxSec == 2

\* --------------------------------------------------------- bounded inputs
Amplitudes == {-40, -30, 0, 30}
Rates == {100, 200, 250}
Thresholds == {-30, 40}

RECURSIVE SeqsUpTo(_, _)
SeqsUpTo(S, n) ==
    IF n = 0 THEN {<<>>}
    ELSE LET shorter == SeqsUpTo(S, n - 1)
         IN  shorter \cup {Append(s, v) : s \in {t \in shorter : Len(t) = n - 1}, v \in S}

Signals == SeqsUpTo(Amplitudes, MaxLen)

\* ------------------------------------------------------------ python bits
Abs(v) == IF v < 0 THEN -v ELSE v

\* numpy unary minus on an array
Negate(x) == [k \in 1..Len(x) |-> -x[k]]

\* x[a:b] of a Python sequence, for 0 <= a and 0 <= b
Slice(x, a, b) ==
    LET hi == IF b < Len(x) THEN b ELSE Len(x)
    IN  IF a >= hi THEN <<>> ELSE SubSeq(x, a + 1, hi)

\* ------------------------------------------------- scipy.signal.find_peaks
\* sample i (0-based) of x
At(x, i) == x[i + 1]

\* the end of the plateau that starts at i: the first i_ahead >= i + 1 that is
\* the last sample or holds another value than x[i]
RECURSIVE PlateauEnd(_, _, _)
PlateauEnd(x, i, i_ahead) ==
    IF i_ahead < Len(x) - 1 /\ At(x, i_ahead) = At(x, i)
    THEN PlateauEnd(x, i, i_ahead + 1)
    ELSE i_ahead

\* the sample reported for the plateau left_edge..right_edge (integer division)
MidpointCeil(left_edge, right_edge) == (left_edge + right_edge + 1) \div 2
Midpoint(left_edge, right_edge) == (left_edge + right_edge) \div 2

\* the scan of _local_maxima_1d from sample i on: the midpoints of the maxima,
\* in the order found
RECURSIVE local_maxima_1d_from(_, _)
local_maxima_1d_from(x, i) ==
    IF i >= Len(x) - 1 THEN <<>>
    ELSE IF At(x, i - 1) < At(x, i)
         THEN LET i_ahead == PlateauEnd(x, i, i + 1)
              IN  IF At(x, i_ahead) < At(x, i)
                  THEN <<Midpoint(i, i_ahead - 1)>> \o local_maxima_1d_from(x, i_ahead + 1)
                  ELSE local_maxima_1d_from(x, i + 1)
         ELSE local_maxima_1d_from(x, i + 1)

local_maxima_1d(x) == local_maxima_1d_from(x, 1)

\* the height condition of find_peaks: a scalar height is a minimum
HeightOkStrict(v, hmin) == v > hmin
HeightOk(v, hmin) == hmin <= v

\* find_peaks(x, height=hmin)[0]
find_peaks_height(x, hmin) == SelectSeq(local_maxima_1d(x), LAMBDA i : HeightOk(At(x, i), hmin))

\* find_peaks(x)[0]
find_peaks(x) == local_maxima_1d(x)

\* ------------------------------------------------------- recording files
\* What a path names.  sigs are the channels of an ABF file (the rows of
\* abf.data) or the flattened analog signals of the first segment of a Neo
\* block; nseg is the number of segments of the block.
RawAmplitudes == {0, 30}
FileRates == {0, 200, 250}
RawSignals == SeqsUpTo(RawAmplitudes, MaxFileLen)

MissingFile == [exists |-> FALSE, format |-> "none", nseg |-> 0, sigs |-> <<>>, rate |-> 0]
JunkFile == [exists |-> TRUE, format |-> "junk", nseg |-> 0, sigs |-> <<>>, rate |-> 0]
AbfFiles ==
    {[exists |-> TRUE, format |-> "abf", nseg |-> 1, sigs |-> c, rate |-> r] :
        c \in {<<>>} \cup {<<s>> : s \in RawSignals}, r \in FileRates}
NeoFiles ==
    {[exists |-> TRUE, format |-> "neo", nseg |-> 1, sigs |-> c, rate |-> r] :
        c \in {<<>>} \cup {<<s>> : s \in RawSignals}, r \in FileRates}
    \cup {[exists |-> TRUE, format |-> "neo", nseg |-> 0, sigs |-> <<>>, rate |-> 0]}
Files == {MissingFile, JunkFile} \cup AbfFiles \cup NeoFiles
FileTypes == {"abf", "neo", "csv"}

\* What a loader hands back: the exception it raised ("none": it returned),
\* the recording, the Python class of the sampling rate, whether it opened a
\* file handle that it did not close itself, and the levels it logged.
Loaded(exc, sig, rate, cls, opened, logs) ==
    [exc |-> exc, signal |-> sig, sampling_rate |-> rate, rate_class |-> cls,
     opened |-> opened, logs |-> logs]

\* pyabf.ABF(file_path); abf.data[0]; abf.dataRate.  pyabf reads the file
\* inside a with block: no handle outlives the constructor.
ReadAbf(file) ==
    IF ~file.exists THEN Loaded("ValueError", <<>>, 0, "none", FALSE, <<>>)
    ELSE IF file.format # "abf" THEN Loaded("NotImplementedError", <<>>, 0, "none", FALSE, <<>>)
    ELSE IF Len(file.sigs) = 0 THEN Loaded("IndexError", <<>>, 0, "none", FALSE, <<>>)
    ELSE Loaded("none", file.sigs[1], file.rate, "int", FALSE, <<>>)

\* reader = neo.io.NeoHdf5IO(file_path); block = reader.read_block();
\* block.segments[0]; segment.analogsignals[0].  The reader holds the HDF5
\* file open and nothing closes it.  sampling_rate.magnitude is a 0-d array.
ReadNeo(file) ==
    IF ~file.exists THEN Loaded("OSError", <<>>, 0, "none", FALSE, <<>>)
    ELSE IF file.format # "neo" THEN Loaded("OSError", <<>>, 0, "none", FALSE, <<>>)
    ELSE IF file.nseg = 0 THEN Loaded("IndexError", <<>>, 0, "none", TRUE, <<>>)
    ELSE IF Len(file.sigs) = 0 THEN Loaded("IndexError", <<>>, 0, "none", TRUE, <<>>)
    ELSE Loaded("none", file.sigs[1], file.rate, "ndarray", TRUE, <<>>)

\* ap: load_abf_data, load_neo_data, load_data
load_abf_data(file) == ReadAbf(file)
load_neo_data(file) == ReadNeo(file)
ap_load_data(file, file_type) ==
    IF file_type = "abf" THEN load_abf_data(file)
    ELSE IF file_type = "neo" THEN load_neo_data(file)
    ELSE Loaded("ValueError", <<>>, 0, "none", FALSE, <<>>)

\* pharm: validate_data.  The signal of either reader is one-dimensional;
\* the rate must be an int or a float, and positive.
validate_data(sig, rate, cls) ==
    IF cls \notin {"int", "float"} \/ rate <= 0 THEN "ValueError" ELSE "none"

\* pharm, net: an except clause of load_data logs and raises exc in place of
\* the exception caught
Wrap(r, exc) == [r EXCEPT !.exc = exc, !.logs = <<"error">>]

\* pharm: load_data
pharm_load_data(file, file_type) ==
    LET r == IF file_type = "abf" THEN ReadAbf(file) ELSE ReadNeo(file)
    IN  IF file_type \notin {"abf", "neo"}
        THEN Loaded("DataLoadingError", <<>>, 0, "none", FALSE, <<"error">>)
        ELSE IF r.exc # "none" THEN Wrap(r, "DataLoadingError")
        ELSE LET v == validate_data(r.signal, r.sampling_rate, r.rate_class)
             IN  IF v # "none"
                 THEN [r EXCEPT !.exc = v, !.logs = <<"info", "error">>]
                 ELSE [r EXCEPT !.logs = <<"info", "info">>]

\* net: load_data (the signal alone is returned)
net_load_data(file) ==
    LET r == ReadNeo(file)
    IN  IF r.exc # "none" THEN Wrap(r, "ValueError")
        ELSE Loaded("none", r.signal, 0, "none", r.opened, <<>>)

\* ---------------------------------------------------------- preprocessing
\* The arithmetic of scipy's detrend and sosfilt is not computed: a result is
\* any sequence over FilterAmplitudes that the operation can produce as far
\* as its length and its zeros go.
FilterAmplitudes == {-40, 0}
DefaultFreqMin == 1
DefaultFreqMax == 100
DefaultThreshold == -30

SameLength(x) == {y \in SeqsUpTo(FilterAmplitudes, Len(x)) : Len(y) = Len(x)}

IsLinear(x) == \A k \in 2..(Len(x) - 1) : x[k + 1] - x[k] = x[k] - x[k - 1]

\* detrend(signal): the residual of the least-squares line, sample by
\* sample; zero where the signal is a line.  An empty signal cannot be
\* reshaped to (N, -1): ValueError, or ZeroDivisionError in older releases.
DetrendExc(x) == IF Len(x) = 0 THEN {"ValueError", "ZeroDivisionError"} ELSE {"none"}
DetrendOutputs(x) == {y \in SameLength(x) : IsLinear(x) => \A k \in 1..Len(y) : y[k] = 0}

\* butter(4, [freq_min, freq_max], btype='bandpass', fs=sampling_rate):
\* iirfilter raises ValueError unless 0 < Wn < fs/2; releases that do not
\* compare Wn[0] with Wn[1] design a filter from cutoffs that are in range
\* but out of order.
CutoffsValid(freq_min, freq_max, fs) ==
    0 < freq_min /\ freq_min < freq_max /\ 2 * freq_max < fs
ButterExc(freq_min, freq_max, fs) ==
    IF CutoffsValid(freq_min, freq_max, fs) THEN {"none"}
    ELSE IF 0 < freq_min /\ 0 < freq_max /\ 2 * freq_min < fs /\ 2 * freq_max < fs
         THEN {"ValueError", "none"}
         ELSE {"ValueError"}

\* sosfilt(sos, signal): one output sample per input sample, causal, from
\* rest: the output is zero until the input is not.
SosfiltOutputs(x) ==
    {y \in SameLength(x) :
        \A k \in 1..Len(x) : (\A j \in 1..k : x[j] = 0) => y[k] = 0}

Filtered(exc, sig) == [exc |-> exc, signal |-> sig]

\* sosfilt reshapes its input to (-1, n_samples), which numpy refuses for an
\* array of no samples where it cannot infer the -1: ValueError, or an empty
\* result.
SosfiltExc(x) == IF Len(x) = 0 THEN {"ValueError", "none"} ELSE {"none"}

\* ap: bandpass_filter, returning the filtered signal without its first sample
bandpass_filter_trimmed(signal_in, fs, freq_min, freq_max) ==
    {Filtered(e, <<>>) : e \in ButterExc(freq_min, freq_max, fs) \ {"none"}}
    \cup (IF "none" \in ButterExc(freq_min, freq_max, fs)
          THEN {Filtered(e, <<>>) : e \in SosfiltExc(signal_in) \ {"none"}}
               \cup {Filtered("none", IF Len(y) = 0 THEN y ELSE Tail(y)) :
                        y \in SosfiltOutputs(signal_in)}
          ELSE {})

\* ap: bandpass_filter
bandpass_filter(signal_in, fs, freq_min, freq_max) ==
    {Filtered(e, <<>>) : e \in ButterExc(freq_min, freq_max, fs) \ {"none"}}
    \cup (IF "none" \in ButterExc(freq_min, freq_max, fs)
          THEN {Filtered(e, <<>>) : e \in SosfiltExc(signal_in) \ {"none"}}
               \cup {Filtered("none", y) : y \in SosfiltOutputs(signal_in)}
          ELSE {})

\* ap: preprocess_signal;  pharm: preprocess_signal (the same two steps,
\* the filter inline)
preprocess_signal(signal_in, fs, detrend_signal, freq_min, freq_max) ==
    IF detrend_signal
    THEN {Filtered(e, <<>>) : e \in DetrendExc(signal_in) \ {"none"}}
         \cup (IF "none" \in DetrendExc(signal_in)
               THEN UNION {bandpass_filter(d, fs, freq_min, freq_max) :
                              d \in DetrendOutputs(signal_in)}
               ELSE {})
    ELSE bandpass_filter(signal_in, fs, freq_min, freq_max)

\* ------------------------------------------------- detection, statistics
Quantity(mag, den, units) == [mag |-> mag, den |-> den, units |-> units]
Unset == Quantity(<<>>, 1, "unset")

\* ap: detect_action_potentials
detect_action_potentials(signal_in, fs, threshold) ==
    Quantity(find_peaks_height(Negate(signal_in), Abs(threshold)), fs, "s")

\* numpy.diff
Diff(t) == [k \in 1..(IF Len(t) = 0 THEN 0 ELSE Len(t) - 1) |-> t[k + 1] - t[k]]

\* seconds to milliseconds
RescaleMicro(v) == 1000000 * v
RescaleMs(v) == 1000 * v

\* ap: compute_isi: isi(spike_times * pq.s).rescale('ms')
compute_isi(times) ==
    Quantity([k \in 1..Len(Diff(times.mag)) |-> RescaleMs(Diff(times.mag)[k])],
             times.den, "ms")

\* pharm: detect_firing_rate_change; a period is <<start, end>> in seconds
Window(period, fs) == <<period[1] * fs, period[2] * fs>>
WindowRate(signal_in, fs, w) ==
    Quantity(<<Len(find_peaks(Slice(signal_in, w[1], w[2]))) * fs>>, w[2] - w[1], "Hz")
detect_firing_rate_change(signal_in, fs, baseline_period, drug_period) ==
    LET b == Window(baseline_period, fs)
        d == Window(drug_period, fs)
    IN  IF b[2] - b[1] = 0 \/ d[2] - d[1] = 0
        THEN [exc |-> "ZeroDivisionError", baseline |-> Unset, drug |-> Unset]
        ELSE [exc |-> "none", baseline |-> WindowRate(signal_in, fs, b),
              drug |-> WindowRate(signal_in, fs, d)]

\* ------------------------------------------------------------ curve fits
\* A data set is known by its number of (x, y) pairs and by whether every
\* value, and every residual at the initial guess, is finite.  Whether the
\* optimizer converges on it is not computed.
NoData == [n |-> 0, finite |-> TRUE, given |-> FALSE]
Datasets == {[n |-> k, finite |-> f, given |-> TRUE] : k \in 0..MaxPoints, f \in BOOLEAN}
NumParams == 3

\* scipy.optimize.curve_fit: method 'trf' when bounds are given, else 'lm'
curve_fit(method, data) ==
    IF data.n = 0 \/ ~data.finite THEN {"ValueError"}
    ELSE IF method = "lm" /\ data.n < NumParams THEN {"TypeError"}
    ELSE {"none", "RuntimeError"}

Fit(exc, calls, logs) == [exc |-> exc, calls |-> calls, logs |-> logs]

\* pharm: fit_dose_response
fit_dose_response(data) ==
    {IF e = "RuntimeError" THEN Fit("AnalysisError", 1, <<"error">>)
     ELSE IF e = "none" THEN Fit("none", 1, <<"info">>)
     ELSE Fit(e, 1, <<>>) : e \in curve_fit("trf", data)}

\* syn: analyze_synaptic_io
analyze_synaptic_io(data) == {Fit(e, 1, <<>>) : e \in curve_fit("lm", data)}

\* ----------------------------------------------------------------- state
VARIABLES
    entry,          \* the function the caller invoked ("none": nothing yet)
    pc,             \* "idle", the stage of main about to run, "returned", "done", "raised"
    args,           \* the arguments of the call
    signal,         \* the signal loaded or computed last
    sampling_rate,  \* its sampling rate
    rate_class,     \* the Python class of sampling_rate
    spike_times,    \* result of detect_action_potentials
    isi_values,     \* result of compute_isi
    rates,          \* result of detect_firing_rate_change
    popt,           \* "unset" or "fitted"
    raised,         \* the exception that reached the caller ("none": none)
    last_exc,       \* the exception the stage run last ended with
    trace,          \* the stages of main run so far, in order
    open_handles,   \* recording files opened by a loader and still open
    log,            \* the levels of the logging calls made
    fit_calls       \* calls of curve_fit made

vars == <<entry, pc, args, signal, sampling_rate, rate_class, spike_times, isi_values,
          rates, popt, raised, last_exc, trace, open_handles, log, fit_calls>>

NoRates == [baseline |-> Unset, drug |-> Unset]

Init ==
    /\ entry = "none"
    /\ pc = "idle"
    /\ args = <<>>
    /\ signal = <<>>
    /\ sampling_rate = 0
    /\ rate_class = "none"
    /\ spike_times = Unset
    /\ isi_values = Unset
    /\ rates = NoRates
    /\ popt = "unset"
    /\ raised = "none"
    /\ last_exc = "none"
    /\ trace = <<>>
    /\ open_handles = 0
    /\ log = <<>>
    /\ fit_calls = 0

\* A reader that nothing closes is released when it is collected: at the
\* return where reference counting frees it at once, later elsewhere; while
\* an exception propagates its traceback keeps the loader's frame alive.
HandlesAfter(r) ==
    IF ~r.opened THEN {0}
    ELSE IF r.exc = "none" THEN {0, 1}
    ELSE {1}

\* the end of a call made on its own
Finish(exc) == IF exc = "none" THEN "returned" ELSE "raised"

\* ------------------------------------------- calls of a single function
CallLoad(fn, r, a) ==
    /\ entry' = fn
    /\ args' = a
    /\ pc' = Finish(r.exc)
    /\ raised' = r.exc
    /\ last_exc' = r.exc
    /\ signal' = r.signal
    /\ sampling_rate' = r.sampling_rate
    /\ rate_class' = r.rate_class
    /\ open_handles' \in HandlesAfter(r)
    /\ log' = log \o r.logs
    /\ UNCHANGED <<spike_times, isi_values, rates, popt, trace, fit_calls>>

CallApLoadData ==
    /\ pc = "idle"
    /\ \E f \in Files, t \in FileTypes :
        CallLoad("ap.load_data", ap_load_data(f, t), [file |-> f, file_type |-> t])

CallPharmLoadData ==
    /\ pc = "idle"
    /\ \E f \in Files, t \in FileTypes :
        CallLoad("pharm.load_data", pharm_load_data(f, t), [file |-> f, file_type |-> t])

CallNetLoadData ==
    /\ pc = "idle"
    /\ \E f \in Files :
        CallLoad("net.load_data", net_load_data(f), [file |-> f, file_type |-> "neo"])

Cutoffs == {0, 1, 50, 100, 125}

CallFilter(fn, outcomes, a) ==
    /\ entry' = fn
    /\ args' = a
    /\ \E r \in outcomes :
        /\ pc' = Finish(r.exc)
        /\ raised' = r.exc
        /\ last_exc' = r.exc
        /\ signal' = r.signal
        /\ log' = IF fn = "pharm.preprocess_signal" /\ r.exc = "none"
                  THEN Append(log, "info") ELSE log
    /\ sampling_rate' = a.fs
    /\ rate_class' = "int"
    /\ UNCHANGED <<spike_times, isi_values, rates, popt, trace, open_handles, fit_calls>>

CallBandpassFilter ==
    /\ pc = "idle"
    /\ \E x \in RawSignals, fs \in Rates, lo \in Cutoffs, hi \in Cutoffs :
        CallFilter("ap.bandpass_filter", bandpass_filter(x, fs, lo, hi),
                   [signal |-> x, fs |-> fs, freq_min |-> lo, freq_max |-> hi,
                    detrend |-> FALSE])

CallApPreprocessSignal ==
    /\ pc = "idle"
    /\ \E x \in RawSignals, fs \in Rates, lo \in Cutoffs, hi \in Cutoffs, dt \in BOOLEAN :
        CallFilter("ap.preprocess_signal", preprocess_signal(x, fs, dt, lo, hi),
                   [signal |-> x, fs |-> fs, freq_min |-> lo, freq_max |-> hi,
                    detrend |-> dt])

CallPharmPreprocessSignal ==
    /\ pc = "idle"
    /\ \E x \in RawSignals, fs \in Rates, lo \in Cutoffs, hi \in Cutoffs, dt \in BOOLEAN :
        CallFilter("pharm.preprocess_signal", preprocess_signal(x, fs, dt, lo, hi),
                   [signal |-> x, fs |-> fs, freq_min |-> lo, freq_max |-> hi,
                    detrend |-> dt])

CallDetectActionPotentials ==
    /\ pc = "idle"
    /\ \E x \in Signals, fs \in Rates, th \in Thresholds :
        /\ entry' = "ap.detect_action_potentials"
        /\ args' = [signal |-> x, fs |-> fs, threshold |-> th]
        /\ spike_times' = detect_action_potentials(x, fs, th)
        /\ pc' = "returned"
        /\ UNCHANGED <<signal, sampling_rate, rate_class, isi_values, rates, popt, raised,
                       last_exc, trace, open_handles, log, fit_calls>>

SpikeTimes ==
    {Quantity(m, fs, "s") : m \in SeqsUpTo(0..MaxIdx, MaxSpikes), fs \in Rates}

CallComputeIsi ==
    /\ pc = "idle"
    /\ \E t \in SpikeTimes :
        /\ entry' = "ap.compute_isi"
        /\ args' = [spike_times |-> t]
        /\ isi_values' = compute_isi(t)
        /\ pc' = "returned"
        /\ UNCHANGED <<signal, sampling_rate, rate_class, spike_times, rates, popt, raised,
                       last_exc, trace, open_handles, log, fit_calls>>

Periods == {<<a, b>> : a \in 0..MaxSec, b \in 0..MaxSec}

CallDetectFiringRateChange ==
    /\ pc = "idle"
    /\ \E x \in SeqsUpTo(FilterAmplitudes, MaxLen), fs \in Rates, b \in Periods, d \in Periods :
        LET r == detect_firing_rate_change(x, fs, b, d)
        IN  /\ entry' = "pharm.detect_firing_rate_change"
            /\ args' = [signal |-> x, fs |-> fs, baseline_period |-> b, drug_period |-> d]
            /\ rates' = [baseline |-> r.baseline, drug |-> r.drug]
            /\ pc' = Finish(r.exc)
            /\ raised' = r.exc
            /\ last_exc' = r.exc
            /\ log' = IF r.exc = "none" THEN Append(log, "info") ELSE log
            /\ UNCHANGED <<signal, sampling_rate, rate_class, spike_times, isi_values, popt,
                           trace, open_handles, fit_calls>>

CallFit(fn, outcomes, d) ==
    /\ entry' = fn
    /\ args' = [data |-> d]
    /\ \E r \in outcomes :
        /\ pc' = Finish(r.exc)
        /\ raised' = r.exc
        /\ last_exc' = r.exc
        /\ popt' = IF r.exc = "none" THEN "fitted" ELSE "unset"
        /\ fit_calls' = fit_calls + r.calls
        /\ log' = log \o r.logs
    /\ UNCHANGED <<signal, sampling_rate, rate_class, spike_times, isi_values, rates, trace,
                   open_handles>>

CallFitDoseResponse ==
    /\ pc = "idle"
    /\ \E d \in Datasets : CallFit("pharm.fit_dose_response", fit_dose_response(d), d)

CallAnalyzeSynapticIo ==
    /\ pc = "idle"
    /\ \E d \in Datasets : CallFit("syn.analyze_synaptic_io", analyze_synaptic_io(d), d)

Calls ==
    \/ CallApLoadData
    \/ CallPharmLoadData
    \/ CallNetLoadData
    \/ CallBandpassFilter
    \/ CallApPreprocessSignal
    \/ CallPharmPreprocessSignal
    \/ CallDetectActionPotentials
    \/ CallComputeIsi
    \/ CallDetectFiringRateChange
    \/ CallFitDoseResponse
    \/ CallAnalyzeSynapticIo

\* ------------------------------------------------------------ main()
\* The stages of a script's main, in the order of its statements.
StageOrder(e, a) ==
    IF e = "ap.main" THEN <<"load", "preprocess", "detect", "isi", "plot">>
    ELSE IF e = "pharm.main"
         THEN IF a.data.given
              THEN <<"load", "preprocess", "detect", "fit", "plot">>
              ELSE <<"load", "preprocess", "detect", "plot">>
    ELSE IF e = "net.main"
         THEN <<"load", "preprocess", "connectivity", "network", "metrics",
                "communities", "plot">>
    ELSE <<>>

Position(order, stage) == CHOOSE k \in 1..Len(order) : order[k] = stage

\* Where main is after a stage: main catches nothing, so a stage's exception
\* is the caller's, and the statement after a stage that returned runs next.
AdvanceSwallowing(order, stage, exc) ==
    [pc |-> IF Position(order, stage) = Len(order) THEN "done"
            ELSE order[Position(order, stage) + 1],
     raised |-> "none"]
Advance(order, stage, exc) ==
    IF exc # "none" THEN [pc |-> "raised", raised |-> exc]
    ELSE [pc |-> IF Position(order, stage) = Len(order) THEN "done"
                 ELSE order[Position(order, stage) + 1],
          raised |-> "none"]

\* the bookkeeping of one stage of main
Ran(stage, exc) ==
    /\ trace' = Append(trace, stage)
    /\ last_exc' = exc
    /\ pc' = Advance(StageOrder(entry, args), stage, exc).pc
    /\ raised' = Advance(StageOrder(entry, args), stage, exc).raised
    /\ UNCHANGED <<entry, args>>

MainDatasets == {NoData} \cup {[n |-> MaxPoints, finite |-> f, given |-> TRUE] : f \in BOOLEAN}

StartMain(fn, a) ==
    /\ entry' = fn
    /\ args' = a
    /\ pc' = "load"
    /\ UNCHANGED <<signal, sampling_rate, rate_class, spike_times, isi_values, rates, popt,
                   raised, last_exc, trace, open_handles, log, fit_calls>>

StartApMain ==
    /\ pc = "idle"
    /\ \E f \in Files, t \in FileTypes : StartMain("ap.main", [file |-> f, file_type |-> t])

StartPharmMain ==
    /\ pc = "idle"
    /\ \E f \in Files, t \in FileTypes, d \in MainDatasets :
        StartMain("pharm.main", [file |-> f, file_type |-> t, data |-> d])

StartNetMain ==
    /\ pc = "idle"
    /\ \E f \in Files : StartMain("net.main", [file |-> f, file_type |-> "neo"])

\* Step 1 of each main: load_data
MainLoad ==
    /\ pc = "load"
    /\ LET r == IF entry = "ap.main" THEN ap_load_data(args.file, args.file_type)
                ELSE IF entry = "pharm.main" THEN pharm_load_data(args.file, args.file_type)
                ELSE net_load_data(args.file)
       IN  /\ Ran("load", r.exc)
           /\ signal' = r.signal
           /\ sampling_rate' = r.sampling_rate
           /\ rate_class' = r.rate_class
           /\ open_handles' \in HandlesAfter(r)
           /\ log' = log \o r.logs
    /\ UNCHANGED <<spike_times, isi_values, rates, popt, fit_calls>>

\* ap, pharm Step 2: preprocess_signal(signal, sampling_rate)
MainPreprocessSignal ==
    /\ pc = "preprocess"
    /\ entry \in {"ap.main", "pharm.main"}
    /\ \E r \in preprocess_signal(signal, sampling_rate, TRUE, DefaultFreqMin, DefaultFreqMax) :
        /\ Ran("preprocess", r.exc)
        /\ signal' = r.signal
        /\ log' = IF entry = "pharm.main" /\ r.exc = "none" THEN Append(log, "info") ELSE log
    /\ UNCHANGED <<sampling_rate, rate_class, spike_times, isi_values, rates, popt,
                   open_handles, fit_calls>>

\* ap Step 3: detect_action_potentials(preprocessed_signal, sampling_rate)
ApMainDetect ==
    /\ pc = "detect"
    /\ entry = "ap.main"
    /\ Ran("detect", "none")
    /\ spike_times' = detect_action_potentials(signal, sampling_rate, DefaultThreshold)
    /\ UNCHANGED <<signal, sampling_rate, rate_class, isi_values, rates, popt, open_handles,
                   log, fit_calls>>

\* ap Step 4: compute_isi(spike_times)
ApMainIsi ==
    /\ pc = "isi"
    /\ Ran("isi", "none")
    /\ isi_values' = compute_isi(spike_times)
    /\ UNCHANGED <<signal, sampling_rate, rate_class, spike_times, rates, popt, open_handles,
                   log, fit_calls>>

\* pharm Step 3: detect_firing_rate_change(preprocessed_signal, sampling_rate)
DefaultBaseline == <<0, 10>>
DefaultDrug == <<10, 20>>
PharmMainDetect ==
    /\ pc = "detect"
    /\ entry = "pharm.main"
    /\ LET r == detect_firing_rate_change(signal, sampling_rate, DefaultBaseline, DefaultDrug)
       IN  /\ Ran("detect", r.exc)
           /\ rates' = [baseline |-> r.baseline, drug |-> r.drug]
           /\ log' = IF r.exc = "none" THEN Append(log, "info") ELSE log
    /\ UNCHANGED <<signal, sampling_rate, rate_class, spike_times, isi_values, popt,
                   open_handles, fit_calls>>

\* pharm Step 4: fit_dose_response(doses, responses)
PharmMainFit ==
    /\ pc = "fit"
    /\ \E r \in fit_dose_response(args.data) :
        /\ Ran("fit", r.exc)
        /\ popt' = IF r.exc = "none" THEN "fitted" ELSE "unset"
        /\ fit_calls' = fit_calls + r.calls
        /\ log' = log \o r.logs
    /\ UNCHANGED <<signal, sampling_rate, rate_class, spike_times, isi_values, rates,
                   open_handles>>

\* ap: plot_action_potentials, plot_isi_histogram;  net: plot_network,
\* plot_graph_metrics;  pharm: plot_results, whose dose-response branch
\* calls sigmoid, a name local to fit_dose_response
plot_results(fitted) == IF fitted THEN "NameError" ELSE "none"
MainPlot ==
    /\ pc = "plot"
    /\ Ran("plot", IF entry = "pharm.main" THEN plot_results(popt = "fitted") ELSE "none")
    /\ UNCHANGED <<signal, sampling_rate, rate_class, spike_times, isi_values, rates, popt,
                   open_handles, log, fit_calls>>

\* net Steps 2 to 6: preprocess_data, construct_connectivity_matrix,
\* create_network, compute_graph_metrics, detect_communities.  Each is a
\* call into numpy, scipy.sparse, networkx or cdlib on the result of the
\* stage before; whether the library accepts it is not computed.
NetStages == {"preprocess", "connectivity", "network", "metrics", "communities"}
LibraryOutcomes == {"none", "TypeError"}
NetMainStage ==
    /\ entry = "net.main"
    /\ pc \in NetStages
    /\ \E e \in LibraryOutcomes : Ran(pc, e)
    /\ UNCHANGED <<signal, sampling_rate, rate_class, spike_times, isi_values, rates, popt,
                   open_handles, log, fit_calls>>

Mains ==
    \/ StartApMain
    \/ StartPharmMain
    \/ StartNetMain
    \/ MainLoad
    \/ MainPreprocessSignal
    \/ ApMainDetect
    \/ ApMainIsi
    \/ PharmMainDetect
    \/ PharmMainFit
    \/ MainPlot
    \/ NetMainStage

Next == Calls \/ Mains

Spec == Init /\ [][Next]_vars

\* ================================================================ claims
LoadEntries == {"ap.load_data", "pharm.load_data", "net.load_data"}
FilterEntries == {"ap.bandpass_filter", "ap.preprocess_signal", "pharm.preprocess_signal"}
FitEntries == {"pharm.fit_dose_response", "syn.analyze_synaptic_io"}
MainEntries == {"ap.main", "pharm.main", "net.main"}
Called(fn) == entry = fn /\ pc \in {"returned", "raised"}

\* C1: loading a path that names no file, with a supported file type, ends
\* in DataLoadingError in every load_data.
C1_MissingFileRaisesDataLoadingError ==
    (entry \in LoadEntries /\ pc \in {"returned", "raised"}
        /\ args.file_type \in {"abf", "neo"} /\ ~args.file.exists)
    => raised = "DataLoadingError"

\* C2: compute_isi on fewer than 2 spike times ends in EmptyInputError, called
\* on its own and as Step 4 of the action-potential main.
C2_FewSpikesRaiseEmptyInputError ==
    /\ (Called("ap.compute_isi") /\ Len(args.spike_times.mag) < 2)
        => raised = "EmptyInputError"
    /\ (entry = "ap.main" /\ Len(trace) >= 4 /\ Len(spike_times.mag) < 2)
        => raised = "EmptyInputError"

\* C3: a filter call whose cutoffs violate 0 < freq_min < freq_max < fs/2 ends
\* in InvalidParameterError and yields no filtered signal.
C3_BadCutoffsRaiseInvalidParameterError ==
    (entry \in FilterEntries /\ pc \in {"returned", "raised"}
        /\ ~(0 < args.freq_min /\ args.freq_min < args.freq_max
             /\ 2 * args.freq_max < args.fs))
    => (raised = "InvalidParameterError" /\ signal = <<>>)

\* C4: a fit that fails ends in CurveFitError, after exactly one attempt.
C4_FailedFitRaisesCurveFitError ==
    (entry \in FitEntries /\ pc \in {"returned", "raised"} /\ popt = "unset")
    => (raised = "CurveFitError" /\ fit_calls = 1)

\* A local peak of y at sample i (0-based): i is the middle (the lower middle
\* of an even width) of a run of equal samples l..r that does not touch
\* either end of y and whose two neighbours are lower.
IsLocalPeak(y, i) ==
    \E l \in 1..(Len(y) - 2), r \in 1..(Len(y) - 2) :
        /\ l <= i /\ i <= r
        /\ \A j \in l..r : y[j + 1] = y[l + 1]
        /\ y[l] < y[l + 1]
        /\ y[r + 2] < y[r + 1]
        /\ 2 * i \in {l + r, l + r - 1}

SpikeSamples(x, threshold) ==
    {i \in 0..(Len(x) - 1) : IsLocalPeak(Negate(x), i) /\ -x[i + 1] >= Abs(threshold)}

Reported(times) == {times.mag[k] : k \in 1..Len(times.mag)}

\* C5: detect_action_potentials returns, in increasing order, exactly the
\* times i / sampling_rate of the samples i where the negated signal has a
\* local peak of height at least |threshold|.
C5_DetectionIsExact ==
    Called("ap.detect_action_potentials") =>
        /\ pc = "returned"
        /\ spike_times.units = "s"
        /\ spike_times.den = args.fs
        /\ Reported(spike_times) = SpikeSamples(args.signal, args.threshold)
        /\ \A k \in 1..(Len(spike_times.mag) - 1) :
               spike_times.mag[k] < spike_times.mag[k + 1]

\* two peaks reported, one of them exactly at the threshold, and a sample
\* beyond the threshold that is no peak
C5_Witness ==
    /\ Called("ap.detect_action_potentials")
    /\ Len(spike_times.mag) = 2
    /\ \E k \in 1..2 : -args.signal[spike_times.mag[k] + 1] = Abs(args.threshold)
    /\ \E i \in 0..(Len(args.signal) - 1) :
           -args.signal[i + 1] >= Abs(args.threshold) /\ i \notin Reported(spike_times)

\* the samples i (0-based) where a flat top of width 2, i and i + 1, crosses
\* the threshold in the negated signal
FlatTops(x, threshold) ==
    {i \in 1..(Len(x) - 3) :
        /\ x[i + 1] = x[i + 2]
        /\ -x[i] < -x[i + 1]
        /\ -x[i + 3] < -x[i + 2]
        /\ -x[i + 1] >= Abs(threshold)}

\* C6: a flat-topped peak of width 2 that crosses the threshold is reported
\* once, at the first of its two samples.
C6_FlatTopReportsFirstSample ==
    Called("ap.detect_action_potentials") =>
        \A i \in FlatTops(args.signal, args.threshold) :
            /\ i \in Reported(spike_times)
            /\ (i + 1) \notin Reported(spike_times)
            /\ Cardinality({k \in 1..Len(spike_times.mag) :
                               spike_times.mag[k] \in {i, i + 1}}) = 1

C6_Witness ==
    /\ Called("ap.detect_action_potentials")
    /\ FlatTops(args.signal, args.threshold) # {}

Ascending(t) == \A k \in 1..(Len(t) - 1) : t[k] <= t[k + 1]

\* C7: for ascending spike times t of length n >= 2 (in seconds), compute_isi
\* returns n - 1 intervals in milliseconds, the k-th equal to t[k+1] - t[k],
\* none negative.
C7_IsiOfAscendingTimes ==
    (Called("ap.compute_isi") /\ Len(args.spike_times.mag) >= 2
        /\ Ascending(args.spike_times.mag))
    => /\ pc = "returned"
       /\ Len(isi_values.mag) = Len(args.spike_times.mag) - 1
       /\ isi_values.units = "ms"
       /\ \A k \in 1..Len(isi_values.mag) :
            \* mag[k] / den ms  =  1000 * (t[k+1] - t[k]) / fs ms
            /\ isi_values.mag[k] * args.spike_times.den
                  = 1000 * (args.spike_times.mag[k + 1] - args.spike_times.mag[k])
                      * isi_values.den
            /\ isi_values.mag[k] >= 0
            /\ isi_values.den > 0

C7_Witness ==
    /\ Called("ap.compute_isi")
    /\ Len(args.spike_times.mag) = 3
    /\ Ascending(args.spike_times.mag)
    /\ isi_values.mag[1] > 0
    /\ isi_values.mag[2] = 0

\* C8: detect_firing_rate_change with a baseline or drug window of zero
\* length in samples ends in EmptyInputError.
C8_EmptyWindowRaisesEmptyInputError ==
    (Called("pharm.detect_firing_rate_change")
        /\ (args.baseline_period[1] * args.fs = args.baseline_period[2] * args.fs
            \/ args.drug_period[1] * args.fs = args.drug_period[2] * args.fs))
    => raised = "EmptyInputError"

\* the place of a stage in load, preprocess, detect, statistics/fit, plot
\* (the graph stages of net.main derive aggregates: statistics)
StageRank(stage) ==
    CASE stage = "load" -> 1
      [] stage = "preprocess" -> 2
      [] stage = "detect" -> 3
      [] stage \in {"isi", "fit", "connectivity", "network", "metrics", "communities"} -> 4
      [] stage = "plot" -> 5
      [] OTHER -> 0

\* C9: every main runs its stages in the order load, preprocess, detect,
\* statistics/fit, plot, each at most once; the exception of a stage is what
\* the caller gets and ends the run at that stage; a run that logged an
\* error ended raised.
C9_StagesInOrderAndErrorsPropagate ==
    entry \in MainEntries =>
        /\ \A k \in 1..Len(trace) : StageRank(trace[k]) > 0
        /\ Len(trace) >= 1 => trace[1] = "load"
        /\ \A j \in 1..Len(trace), k \in 1..Len(trace) :
               j < k => /\ StageRank(trace[j]) <= StageRank(trace[k])
                        /\ trace[j] # trace[k]
        /\ last_exc # "none" => (pc = "raised" /\ raised = last_exc)
        /\ pc = "raised" => raised # "none"
        /\ pc \in {"idle", "load", "preprocess", "detect", "isi", "fit", "plot", "done",
                   "connectivity", "network", "metrics", "communities"}
               => (raised = "none" /\ last_exc = "none")
        /\ pc = "done" => trace[Len(trace)] = "plot"
        /\ (pc \notin {"load", "raised", "done"}) => trace[Len(trace)] # pc
        /\ (\E k \in 1..Len(log) : log[k] = "error") => pc = "raised"

\* a run of main that a late stage ended: the fit of the dose-response curve
C9_Witness ==
    /\ entry = "pharm.main"
    /\ pc = "raised"
    /\ trace = <<"load", "preprocess", "detect", "fit">>
    /\ raised = "AnalysisError"

\* C10: once a loader has returned or raised, no recording file it opened is
\* open: in particular none is open when a later stage of main starts.
C10_NoHandleOutlivesTheLoader ==
    ((entry \in LoadEntries /\ pc \in {"returned", "raised"})
        \/ (entry \in MainEntries /\ Len(trace) >= 1))
    => open_handles = 0

\* the file holds no signal for the loader that reads it: an ABF file of zero
\* channels, a Neo block of zero segments, a first segment of zero analog
\* signals
HoldsNoSignal(file, file_type) ==
    /\ file.exists
    /\ file.format = file_type
    /\ (file.nseg = 0 \/ Len(file.sigs) = 0)

\* C11: loading a file whose channel/segment structure holds no signal ends
\* in DataLoadingError in every loader.
C11_NoSignalRaisesDataLoadingError ==
    (entry \in LoadEntries /\ pc \in {"returned", "raised"}
        /\ HoldsNoSignal(args.file, args.file_type))
    => raised = "DataLoadingError"

\* C12: a recording that load_data returns has a signal of at least one
\* sample and, where a sampling rate is returned with it, a positive one.
C12_ReturnedRecordingIsValid ==
    (entry \in LoadEntries /\ pc = "returned")
    => /\ Len(signal) >= 1
       /\ entry # "net.load_data" => sampling_rate > 0

ValidFilterCall ==
    /\ entry \in FilterEntries
    /\ pc \in {"returned", "raised"}
    /\ 0 < args.freq_min /\ args.freq_min < args.freq_max /\ 2 * args.freq_max < args.fs

C14_PlotAfterFitCompletes ==
    (entry = "pharm.main" /\ args.data.given /\ popt = "fitted"
        /\ Len(trace) >= 1 /\ trace[Len(trace)] = "plot")
    => (pc = "done" /\ raised = "none")
====
